---- MODULE Spec2Model ----
\* Model of the MySQL query engine of llana (src/src/databases/mysql.database.ts):
\* getSchema, find, findOne, findMany, findTotalRecords, addRelations and
\* performQuery, run against a small fixed relational store.
\*
\* JavaScript strings that the code searches and rewrites (column names,
\* table names, relation names) are sequences of tokens, so that
\* String.includes and String.replace are computed on their contents.
EXTENDS Integers, Sequences, FiniteSets, TLC

VARIABLES cfg, options, given, call, open

vars == <<cfg, options, given, call, open>>

----------------------------------------------------------------------------
\* Bounds of the model

\* how deep the schema handed to the engine has its relations resolved
SchemaDepth == 2

\* the latest performQuery of one engine call that the executor may fail
MaxFaultAt == 2

----------------------------------------------------------------------------
\* JavaScript values

\* the single element of a singleton set: { e(x) : x \in {v} } evaluates v
\* once, whatever number of times e uses x
Only(S) == CHOOSE x \in S : TRUE

\* undefined / null for a numeric or column value
Undefined == -1

\* a JavaScript falsy value: 0, null or undefined
Falsy(v) == v = 0 \/ v = Undefined

\* String.prototype.includes on token strings
Includes(s, sub) ==
    \E i \in 0..(Len(s) - Len(sub)) : SubSeq(s, i + 1, i + Len(sub)) = sub

\* index before the first occurrence of sub in s (Includes(s, sub) assumed)
FirstAt(s, sub) ==
    CHOOSE i \in 0..(Len(s) - Len(sub)) :
        /\ SubSeq(s, i + 1, i + Len(sub)) = sub
        /\ \A j \in 0..(i - 1) : SubSeq(s, j + 1, j + Len(sub)) # sub

\* String.prototype.replace(sub, ''): removes the first occurrence only
Replace(s, sub) ==
    Only({ IF Includes(x[1], x[2])
           THEN SubSeq(x[1], 1, FirstAt(x[1], x[2]))
                \o SubSeq(x[1], FirstAt(x[1], x[2]) + Len(x[2]) + 1, Len(x[1]))
           ELSE x[1] : x \in {<<s, sub>>} })

Dot == <<".">>

\* the elements of s at the indices I, in order
SubSeqBy(s, I) ==
    [k \in 1..Cardinality(I) |->
        s[CHOOSE i \in I : Cardinality({j \in I : j < i}) = k - 1]]

\* Array.prototype.filter (mysql.database.ts:178)
Filter(s, keep(_)) ==
    Only({ Only({ SubSeqBy(x, I) : I \in {{i \in 1..Len(x) : keep(x[i])}} }) : x \in {s} })

\* Array.prototype.map (mysql.database.ts:66)
Map(s, f(_)) == Only({ [i \in 1..Len(x) |-> f(x[i])] : x \in {s} })

\* Array.prototype.find (mysql.database.ts:228): index of the first match, 0 when there is none
FindIndex(s, p(_)) ==
    Only({ IF \E i \in 1..Len(x) : p(x[i])
           THEN CHOOSE i \in 1..Len(x) : p(x[i]) /\ \A j \in 1..(i - 1) : ~p(x[j])
           ELSE 0 : x \in {s} })

----------------------------------------------------------------------------
\* The relational store behind the executor

users == <<"users">>
orders == <<"orders">>
big_orders == <<"big_", "orders">>
order_items == <<"order_items">>
logs == <<"logs">>
ghost == <<"ghost">>

id == <<"id">>
name == <<"name">>
user_id == <<"user_id">>
amount == <<"amount">>

Col(f, k, n) == [Field |-> f, Key |-> k, Null |-> n]

\* DESCRIBE output per table
Catalog ==
    (users :> << Col(id, "PRI", "NO"), Col(name, "", "YES") >>)
 @@ (orders :> << Col(id, "PRI", "NO"), Col(user_id, "MUL", "NO"), Col(amount, "", "YES") >>)
 @@ (big_orders :> << Col(id, "PRI", "NO"), Col(user_id, "MUL", "NO"), Col(amount, "", "YES") >>)
 @@ (order_items :> << Col(<<"order_id">>, "PRI", "NO"), Col(<<"item_id">>, "PRI", "NO") >>)
 @@ (logs :> << Col(<<"msg">>, "", "YES") >>)

\* INFORMATION_SCHEMA.KEY_COLUMN_USAGE rows that reference another table
KeyUsage ==
    << [TABLE_NAME |-> orders, COLUMN_NAME |-> user_id,
        REFERENCED_TABLE_NAME |-> users, REFERENCED_COLUMN_NAME |-> id],
       [TABLE_NAME |-> big_orders, COLUMN_NAME |-> user_id,
        REFERENCED_TABLE_NAME |-> users, REFERENCED_COLUMN_NAME |-> id] >>

URow(i, n) == (id :> i) @@ (name :> n)
ORow(i, u, a) == (id :> i) @@ (user_id :> u) @@ (amount :> a)

Store ==
    (users :> << URow(1, 7), URow(2, 8) >>)
 @@ (orders :> << ORow(1, 1, 150), ORow(2, 1, 50), ORow(3, 2, 70) >>)
 @@ (big_orders :> << ORow(1, 1, 500) >>)
 @@ (order_items :> << >>)
 @@ (logs :> << >>)

TableNames == DOMAIN Catalog

ColumnsOf(t) == { Catalog[t][i].Field : i \in 1..Len(Catalog[t]) }

NullRow(t) == [c \in ColumnsOf(t) |-> Undefined]

\* position of the first '.' of a column reference, 0 when it is unqualified
DotAt(s) == IF Includes(s, Dot) THEN FirstAt(s, Dot) + 1 ELSE 0

\* SQL name resolution of a column reference against the tables in scope
Resolve(scope, c) ==
    IF DotAt(c) = 0
    THEN Only({ IF Cardinality(cand) = 1
                THEN [ok |-> TRUE, t |-> scope[CHOOSE i \in cand : TRUE], c |-> c]
                ELSE [ok |-> FALSE, t |-> <<>>, c |-> c] :
                cand \in {{i \in 1..Len(scope) : c \in ColumnsOf(scope[i])}} })
    ELSE Only({ IF (\E i \in 1..Len(scope) : scope[i] = t) /\ SubSeq(c, p + 1, Len(c)) \in ColumnsOf(t)
                THEN [ok |-> TRUE, t |-> t, c |-> SubSeq(c, p + 1, Len(c))]
                ELSE [ok |-> FALSE, t |-> <<>>, c |-> c] :
                p \in {DotAt(c)}, t \in {SubSeq(c, 1, DotAt(c) - 1)} })

\* value of a resolved column in a joined row (env: table -> row)
ValueAt(env, scope, c) == Only({ env[r.t][r.c] : r \in {Resolve(scope, c)} })

\* one rendered predicate of a WHERE clause; NULL never compares true
CondHolds(env, scope, w) ==
    Only({ /\ v # Undefined
           /\ CASE w.operator = "=" -> v = w.value
                 [] w.operator = ">" -> v > w.value
                 [] w.operator = "<" -> v < w.value
                 [] OTHER -> FALSE : v \in {ValueAt(env, scope, w.column)} })

\* the tables a SELECT names: FROM table, then each LEFT JOIN
ScopeOf(q) == <<q.table>> \o [i \in 1..Len(q.joins) |-> q.joins[i].table]

\* LEFT JOIN of every row of envs with table j.table ON org_table.org_column = table.column
RECURSIVE JoinOne(_, _)
JoinOne(envs, j) ==
    IF envs = <<>> THEN <<>>
    ELSE Only({ (IF m = <<>> THEN << Head(envs) @@ (j.table :> NullRow(j.table)) >>
                 ELSE [k \in 1..Len(m) |-> Head(envs) @@ (j.table :> m[k])])
                \o JoinOne(Tail(envs), j) :
                m \in { Filter(Store[j.table],
                           LAMBDA r : /\ Head(envs)[j.org_table][j.org_column] # Undefined
                                      /\ r[j.column] = Head(envs)[j.org_table][j.org_column]) } })

RECURSIVE JoinAll(_, _)
JoinAll(envs, joins) ==
    IF joins = <<>> THEN envs
    ELSE Only({ JoinAll(e, Tail(joins)) : e \in {JoinOne(envs, Head(joins))} })

\* a LEFT JOIN clause the server accepts
JoinOk(q, k) ==
    LET j == q.joins[k]
    IN  /\ j.table \in TableNames
        /\ \A i \in 1..(k - 1) : q.joins[i].table # j.table
        /\ j.table # q.table
        /\ j.column \in ColumnsOf(j.table)
        /\ \E i \in 1..k : ScopeOf(q)[i] = j.org_table
        /\ j.org_table \in TableNames
        /\ j.org_column \in ColumnsOf(j.org_table)

\* row a sorts strictly before row b under the ORDER BY list
RECURSIVE Before(_, _, _, _)
Before(a, b, scope, order) ==
    IF order = <<>> THEN FALSE
    ELSE Only({ IF v[1] = v[2] THEN Before(a, b, scope, Tail(order))
                ELSE IF Head(order).operator = "DESC" THEN v[1] > v[2] ELSE v[1] < v[2] :
                v \in { << ValueAt(a, scope, Head(order).column),
                           ValueAt(b, scope, Head(order).column) >> } })

\* stable insertion of e into the sorted sequence s
RECURSIVE Insert(_, _, _, _)
Insert(s, e, scope, order) ==
    IF s = <<>> THEN <<e>>
    ELSE IF Before(e, Head(s), scope, order) THEN <<e>> \o s
    ELSE <<Head(s)>> \o Insert(Tail(s), e, scope, order)

RECURSIVE SortBy(_, _, _)
SortBy(s, scope, order) ==
    IF s = <<>> THEN <<>>
    ELSE Only({ Insert(sorted, s[Len(s)], scope, order) :
                sorted \in {SortBy(SubSeq(s, 1, Len(s) - 1), scope, order)} })

\* the object the driver builds for one result row: later columns of the
\* same name overwrite earlier ones
RECURSIVE MergeAll(_, _)
MergeAll(env, scope) ==
    IF scope = <<>> THEN <<>>
    ELSE MergeAll(env, Tail(scope)) @@ env[Head(scope)]

RECURSIVE Project(_, _, _)
Project(env, scope, fields) ==
    IF fields = <<>> THEN <<>>
    ELSE Project(env, scope, Tail(fields))
         @@ (Resolve(scope, Head(fields)).c :> ValueAt(env, scope, Head(fields)))

Min(a, b) == IF a < b THEN a ELSE b

\* SELECT ... FROM ... LEFT JOIN ... WHERE ... ORDER BY ... LIMIT ... OFFSET
SelectOk(q) ==
    /\ q.table \in TableNames
    /\ \A k \in 1..Len(q.joins) : JoinOk(q, k)
    /\ \A i \in 1..Len(q.fields) : Resolve(ScopeOf(q), q.fields[i]).ok
    /\ \A i \in 1..Len(q.where) :
          Resolve(ScopeOf(q), q.where[i].column).ok /\ q.where[i].hasValue
    /\ \A i \in 1..Len(q.order) : Resolve(ScopeOf(q), q.order[i].column).ok
    /\ q.limit >= 0

SelectRows(q) ==
    Only({ Only({ Only({ [i \in 1..Len(page) |->
                            IF q.fields = <<>> THEN MergeAll(page[i], ScopeOf(q))
                            ELSE Project(page[i], ScopeOf(q), q.fields)] :
                         page \in { SubSeq(sorted,
                                           (IF q.offset = Undefined THEN 0 ELSE q.offset) + 1,
                                           Min((IF q.offset = Undefined THEN 0 ELSE q.offset) + q.limit,
                                               Len(sorted))) } }) :
                  sorted \in { SortBy(Filter(joined, LAMBDA e :
                                        \A i \in 1..Len(q.where) : CondHolds(e, ScopeOf(q), q.where[i])),
                                     ScopeOf(q), q.order) } }) :
           joined \in { JoinAll([i \in 1..Len(Store[q.table]) |-> (q.table :> Store[q.table][i])],
                               q.joins) } })

\* SELECT COUNT(*) as total FROM table WHERE ...
CountOk(q) ==
    /\ q.table \in TableNames
    /\ \A i \in 1..Len(q.where) :
          Resolve(<<q.table>>, q.where[i].column).ok /\ q.where[i].hasValue

total == <<"total">>

CountRows(q) ==
    << (total :> Len(Filter(Store[q.table], LAMBDA row :
            \A i \in 1..Len(q.where) :
                CondHolds((q.table :> row), <<q.table>>, q.where[i])))) >>

\* the two INFORMATION_SCHEMA queries of getSchema
RelationsRows(t) ==
    Map(Filter(KeyUsage, LAMBDA u : u.REFERENCED_TABLE_NAME = t),
        LAMBDA u : [table |-> u.TABLE_NAME, column |-> u.COLUMN_NAME,
                    org_table |-> u.REFERENCED_TABLE_NAME,
                    org_column |-> u.REFERENCED_COLUMN_NAME])

RelationBackRows(t) ==
    Map(Filter(KeyUsage, LAMBDA u : u.TABLE_NAME = t),
        LAMBDA u : [table |-> u.REFERENCED_TABLE_NAME, column |-> u.REFERENCED_COLUMN_NAME,
                    org_table |-> u.TABLE_NAME, org_column |-> u.COLUMN_NAME])

\* what the database server answers to a query: rows, or an error
Execute(q) ==
    CASE q.kind = "describe" ->
            IF q.table \in TableNames THEN [ok |-> TRUE, rows |-> Catalog[q.table]]
            ELSE [ok |-> FALSE, rows |-> <<>>]
      [] q.kind = "relations" -> [ok |-> TRUE, rows |-> RelationsRows(q.table)]
      [] q.kind = "relation_back" -> [ok |-> TRUE, rows |-> RelationBackRows(q.table)]
      [] q.kind = "select" ->
            IF SelectOk(q) THEN [ok |-> TRUE, rows |-> SelectRows(q)]
            ELSE [ok |-> FALSE, rows |-> <<>>]
      [] q.kind = "count" ->
            IF CountOk(q) THEN [ok |-> TRUE, rows |-> CountRows(q)]
            ELSE [ok |-> FALSE, rows |-> <<>>]

----------------------------------------------------------------------------
\* Configuration (ConfigService)

\* the literal fallback of 'database.defaults.limit'
DefaultLimit == 20

\* the values ConfigService holds: each key may be unset
\* no default configured: the literal fallback applies
NoConfig == [limit |-> Undefined, relations_limit |-> Undefined]

Configs == { NoConfig, [limit |-> 1, relations_limit |-> 2] }

----------------------------------------------------------------------------
\* The executor boundary

\* fault: the at-th performQuery of an engine call fails, when opening the
\* connection ("connect") or while running the query ("query")
NoFault == [at |-> 0, kind |-> "none"]

\* the run of one engine call: connections opened and ended, queries sent,
\* errors logged, the options handed to nested findMany calls
Machine(fault, config) ==
    [fault |-> fault, config |-> config, calls |-> 0, acquired |-> 0,
     released |-> 0, sent |-> <<>>, logged |-> 0, children |-> <<>>,
     depth |-> 0, maxDepth |-> 0]

\* a performQuery whose catch block forgets connection.end()
performQueryLeaky(m, q) ==
    Only({ IF a.m.fault.at = a.m.calls + 1 /\ a.m.fault.kind = "connect"
           THEN [m |-> [a.m EXCEPT !.calls = @ + 1], ok |-> FALSE, rows |-> <<>>]
           ELSE IF ~((a.m.fault.at = a.m.calls + 1 /\ a.m.fault.kind = "query") \/ ~a.r.ok)
           THEN [m |-> [a.m EXCEPT !.calls = @ + 1, !.acquired = @ + 1,
                                   !.sent = Append(@, a.q), !.released = @ + 1],
                 ok |-> TRUE, rows |-> a.r.rows]
           ELSE [m |-> [a.m EXCEPT !.calls = @ + 1, !.acquired = @ + 1,
                                   !.sent = Append(@, a.q), !.logged = @ + 1],
                 ok |-> FALSE, rows |-> <<>>] :
           a \in { Only({ [m |-> m, q |-> x, r |-> Execute(x)] : x \in {q} }) } })

\* performQuery: createConnection, connection.query, connection.end on the
\* success path and in the catch block, which logs and rethrows
performQuery(m, q) ==
    Only({ IF a.m.fault.at = a.m.calls + 1 /\ a.m.fault.kind = "connect"
           THEN [m |-> [a.m EXCEPT !.calls = @ + 1], ok |-> FALSE, rows |-> <<>>]
           ELSE IF ~((a.m.fault.at = a.m.calls + 1 /\ a.m.fault.kind = "query") \/ ~a.r.ok)
           THEN [m |-> [a.m EXCEPT !.calls = @ + 1, !.acquired = @ + 1,
                                   !.sent = Append(@, a.q), !.released = @ + 1],
                 ok |-> TRUE, rows |-> a.r.rows]
           ELSE [m |-> [a.m EXCEPT !.calls = @ + 1, !.acquired = @ + 1,
                                   !.sent = Append(@, a.q), !.released = @ + 1, !.logged = @ + 1],
                 ok |-> FALSE, rows |-> <<>>] :
           a \in { Only({ [m |-> m, q |-> x, r |-> Execute(x)] : x \in {q} }) } })

----------------------------------------------------------------------------
\* Results of the engine's methods

\* what an async method hands back: the run so far, "ok" or the error thrown,
\* the value returned and the (possibly mutated) options object
Ret(m, status, value, o) == [m |-> m, status |-> status, value |-> value, o |-> o]

NoValue == [kind |-> "none"]
UndefinedValue == [kind |-> "undefined"]
EmptyObject == [kind |-> "object", row |-> <<>>, rel |-> <<>>]
Obj(row) == [kind |-> "object", row |-> row, rel |-> <<>>]

\* result[key] of a row object
Get(row, key) == IF key \in DOMAIN row THEN row[key] ELSE Undefined

----------------------------------------------------------------------------
\* getSchema

SchemaColumn(column) ==
    [field |-> column.Field,
     nullable |-> column.Null = "YES",
     required |-> column.Null = "NO",
     primary_key |-> column.Key = "PRI",
     unique_key |-> column.Key = "UNI",
     foreign_key |-> column.Key = "MUL"]

getSchema(m, table_name) ==
    Only({ IF ~r1.ok THEN Ret(r1.m, "QueryError", NoValue, NoValue) ELSE
    Only({ IF ~r2.ok THEN Ret(r2.m, "QueryError", NoValue, NoValue) ELSE
    Only({ IF ~r3.ok THEN Ret(r3.m, "QueryError", NoValue, NoValue) ELSE
    Only({ IF pk = 0 THEN Ret(r3.m, "TypeError", NoValue, NoValue)
           ELSE Ret(r3.m, "ok",
                    [kind |-> "schema", table |-> table_name,
                     primary_key |-> columns[pk].field,
                     columns |-> columns, relations |-> r2.rows \o r3.rows],
                    NoValue) :
           columns \in {Map(r1.rows, SchemaColumn)},
           pk \in {FindIndex(Map(r1.rows, SchemaColumn), LAMBDA c : c.primary_key)} }) :
           r3 \in {performQuery(r2.m, [kind |-> "relation_back", table |-> table_name])} }) :
           r2 \in {performQuery(r1.m, [kind |-> "relations", table |-> table_name])} }) :
           r1 \in {performQuery(m, [kind |-> "describe", table |-> table_name])} })

----------------------------------------------------------------------------
\* Query options

\* options.<key> is present (not undefined)
Has(o, key) == key \notin o.unset

NoDot(c) == ~Includes(c, Dot)

\* `${w.column} ${operator} ${w.value ? "'" + w.value + "'" : ''}`
Render(w, column) ==
    [column |-> column, operator |-> w.operator,
     value |-> w.value, hasValue |-> ~Falsy(w.value)]

----------------------------------------------------------------------------
\* find: the SELECT text shared by findOne and findMany

find(opts) ==
    Only({
    Only({ IF \E k \in 1..Len(c.found) : c.found[k] = 0
           THEN [status |-> "TypeError", command |-> NoValue, o |-> c.o1]
           ELSE [status |-> "ok",
                 command |-> [kind |-> "select", fields |-> c.fields, table |-> o.schema.table,
                              joins |-> Map(c.found, LAMBDA i :
                                  [table |-> o.schema.relations[i].table,
                                   column |-> o.schema.relations[i].column,
                                   org_table |-> o.schema.relations[i].org_table,
                                   org_column |-> o.schema.relations[i].org_column]),
                              where |-> c.rendered, order |-> <<>>,
                              limit |-> Undefined, offset |-> Undefined],
                 o |-> c.o1] :
      c \in { LET table_name == o.schema.table
                  fields0 == IF ~Has(o, "fields") THEN <<>>
                             ELSE IF o.joins THEN o.fields ELSE Filter(o.fields, NoDot)
                  where == IF ~Has(o, "where") THEN <<>>
                           ELSE IF o.joins THEN o.where
                           ELSE Filter(o.where, LAMBDA w : NoDot(w.column))
                  fields == Map(fields0, LAMBDA f :
                                IF NoDot(f) THEN table_name \o Dot \o f ELSE f)
                  rels == IF o.joins /\ Has(o, "relations") THEN o.relations ELSE <<>>
              IN  [fields |-> fields,
                   found |-> Map(rels, LAMBDA relation :
                       FindIndex(o.schema.relations, LAMBDA r : r.table = relation)),
                   rendered |-> Map(where, LAMBDA w :
                       Render(w, IF NoDot(w.column) THEN table_name \o Dot \o w.column
                                 ELSE w.column)),
                   \* with joins the loop writes the prefixed names into opts.fields
                   o1 |-> IF o.joins /\ Has(o, "fields")
                          THEN [o EXCEPT !.fields = fields] ELSE o] } }) :
      o \in {opts} })

----------------------------------------------------------------------------
\* findTotalRecords

\* a findTotalRecords that counts with every caller condition
findTotalRecordsAll(m, opts) ==
    Only({
    Only({ IF ~r.ok THEN Ret(r.m, "QueryError", NoValue, o)
           ELSE Ret(r.m, "ok", r.rows[1][total], o) :
      r \in { performQuery(m,
                 [kind |-> "count", table |-> o.schema.table,
                  where |-> Map(IF ~Has(o, "where") THEN <<>>
                                ELSE o.where,
                                LAMBDA w : Render(w, w.column))]) } }) :
      o \in {opts} })

findTotalRecords(m, opts) ==
    Only({
    Only({ IF ~r.ok THEN Ret(r.m, "QueryError", NoValue, o)
           ELSE Ret(r.m, "ok", r.rows[1][total], o) :
      r \in { performQuery(m,
                 [kind |-> "count", table |-> o.schema.table,
                  where |-> Map(IF ~Has(o, "where") THEN <<>>
                                ELSE Filter(o.where, LAMBDA w : NoDot(w.column)),
                                LAMBDA w : Render(w, w.column))]) } }) :
      o \in {opts} })

----------------------------------------------------------------------------
\* findMany and addRelations

RECURSIVE findMany(_, _)
RECURSIVE addRelations(_, _, _)
RECURSIVE expandRelations(_, _, _, _)
RECURSIVE expandRows(_, _, _, _)

\* a nested findMany that is asked to expand the relations of the child schema
childOptionsNested(o0, result0, relation_table0, config0) ==
    Only({
    LET o == a[1]
        result == a[2]
        relation_table == a[3]
        config == a[4]
        schema_relation == relation_table.schema
    IN  [schema |-> schema_relation,
         fields |-> Map(schema_relation.columns, LAMBDA c : c.field),
         where |-> << [column |-> relation_table.column, operator |-> "=",
                       value |-> Get(result.row, relation_table.org_column)] >>,
         sort |-> <<>>,
         relations |-> Map(schema_relation.relations, LAMBDA r : r.table),
         joins |-> FALSE, limit |-> config.relations_limit, offset |-> 0,
         unset |-> {"joins"}] :
      a \in {<<o0, result0, relation_table0, config0>>} })

\* the options of the nested findMany for one relation of one row
childOptions(o0, result0, relation_table0, config0) ==
    Only({
    LET o == a[1]
        result == a[2]
        relation_table == a[3]
        config == a[4]
        schema_relation == relation_table.schema
        prefix == schema_relation.table \o Dot
        picked == Filter(o.fields, LAMBDA f : Includes(f, prefix))
        fields == IF picked # <<>> THEN Map(picked, LAMBDA f : Replace(f, prefix))
                  ELSE Map(schema_relation.columns, LAMBDA c : c.field)
        anchor == [column |-> relation_table.column, operator |-> "=",
                   value |-> Get(result.row, relation_table.org_column)]
        where0 == IF Has(o, "where")
                  THEN <<anchor>> \o Filter(o.where, LAMBDA w : Includes(w.column, prefix))
                  ELSE <<anchor>>
        where == IF Has(o, "where")
                 THEN Map(where0, LAMBDA w : [w EXCEPT !.column = Replace(@, prefix)])
                 ELSE where0
        sort == IF Has(o, "sort")
                THEN Map(Filter(o.sort, LAMBDA x : Includes(x.column, prefix)),
                         LAMBDA x : [x EXCEPT !.column = Replace(@, prefix)])
                ELSE <<>>
    IN  [schema |-> schema_relation, fields |-> fields, where |-> where,
         sort |-> sort, relations |-> <<>>, joins |-> FALSE,
         limit |-> config.relations_limit, offset |-> 0,
         unset |-> {"relations", "joins"}] :
      a \in {<<o0, result0, relation_table0, config0>>} })

\* the caller's options after the loops at lines 257-259 and 265-267 wrote the
\* stripped names into the condition objects shared with options.where / sort
strippedOptions(o, prefix) ==
    LET o1 == IF Has(o, "where")
              THEN [o EXCEPT !.where = Map(@, LAMBDA w :
                        IF Includes(w.column, prefix)
                        THEN [w EXCEPT !.column = Replace(@, prefix)] ELSE w)]
              ELSE o
    IN  IF Has(o, "sort")
        THEN [o1 EXCEPT !.sort = Map(@, LAMBDA x :
                        IF Includes(x.column, prefix)
                        THEN [x EXCEPT !.column = Replace(@, prefix)] ELSE x)]
        ELSE o1

\* the body of the loop over options.relations, from relation k on
expandRelations(m0, o0, result0, k) ==
    Only({
    IF k > Len(o.relations) THEN Ret(m, "ok", result, o) ELSE
    Only({
    IF i = 0 THEN Ret(m, "TypeError", NoValue, o)
    ELSE IF o.schema.relations[i].schema.kind # "schema" THEN Ret(m, "TypeError", NoValue, o)
    ELSE IF ~Has(o, "fields") THEN Ret(m, "TypeError", NoValue, o)
    ELSE
    Only({
    Only({
        IF r.status # "ok" THEN Ret([r.m EXCEPT !.depth = @ - 1], r.status, NoValue, o1)
        ELSE expandRelations([r.m EXCEPT !.depth = @ - 1], o1,
                 [result EXCEPT !.rel = (o.relations[k] :> r.value.data) @@ @], k + 1) :
      r \in { findMany([m EXCEPT !.children = Append(@, child), !.depth = @ + 1,
                                 !.maxDepth = IF m.depth + 1 > @ THEN m.depth + 1 ELSE @],
                       child) } }) :
      child \in { childOptions(o, result, o.schema.relations[i], m.config) },
      o1 \in { strippedOptions(o, o.schema.relations[i].schema.table \o Dot) } }) :
      i \in { FindIndex(o.schema.relations, LAMBDA x : x.table = o.relations[k]) } }) :
      m \in {m0}, o \in {o0}, result \in {result0} })

addRelations(m, o, result) ==
    Only({ IF x.kind = "undefined" THEN Ret(m, "ok", EmptyObject, o)
           ELSE IF Has(o, "relations") /\ o.relations # <<>>
           THEN expandRelations(m, o, x, 1)
           ELSE Ret(m, "ok", x, o) : x \in {result} })

\* for (const r in results) results[r] = await this.addRelations(options, results[r])
expandRows(m, o, results0, r) ==
    Only({
    IF r > Len(results) THEN Ret(m, "ok", results, o)
    ELSE Only({ IF a.status # "ok" THEN Ret(a.m, a.status, NoValue, a.o)
                ELSE expandRows(a.m, a.o, [results EXCEPT ![r] = a.value], r + 1) :
                a \in {addRelations(m, o, results[r])} }) :
      results \in {results0} })

findMany(m, opts) ==
    Only({
    IF t.status # "ok" THEN Ret(t.m, t.status, NoValue, o) ELSE
    Only({
    IF f.status # "ok" THEN Ret(t.m, f.status, NoValue, f.o) ELSE
    Only({
    Only({
    IF ~q.ok THEN Ret(q.m, "QueryError", NoValue, p.o1) ELSE
    Only({
        IF e.status # "ok" THEN Ret(e.m, e.status, NoValue, e.o)
        ELSE Ret(e.m, "ok",
                 [kind |-> "list", limit |-> p.limit, offset |-> p.offset,
                  total |-> t.value, returned |-> Len(e.value), data |-> e.value],
                 e.o) :
      e \in { expandRows(q.m, p.o1, Map(q.rows, Obj), 1) } }) :
      q \in { performQuery(t.m, [f.command EXCEPT !.order = p.sort, !.limit = p.limit,
                                                 !.offset = p.offset]) } }) :
      p \in { LET limit == IF Falsy(o.limit)
                           THEN (IF t.m.config.limit # Undefined THEN t.m.config.limit
                                 ELSE DefaultLimit)
                           ELSE o.limit
                  offset == IF Falsy(o.offset) THEN 0 ELSE o.offset
              IN  [sort |-> IF Has(o, "sort")
                            THEN Filter(o.sort, LAMBDA x : NoDot(x.column)) ELSE <<>>,
                   limit |-> limit, offset |-> offset,
                   o1 |-> [f.o EXCEPT !.limit = limit, !.offset = offset]] } }) :
      f \in { find(o) } }) :
      t \in { findTotalRecords(m, opts) }, o \in {opts} })

----------------------------------------------------------------------------
\* findOne

findOne(m, opts) ==
    Only({
    IF f.status # "ok" THEN Ret(m0, f.status, NoValue, f.o) ELSE
    Only({
        IF ~q.ok THEN Ret(q.m, "QueryError", NoValue, f.o)
        ELSE IF ~o.joins
        THEN addRelations(q.m, f.o, IF q.rows = <<>> THEN UndefinedValue ELSE Obj(q.rows[1]))
        ELSE Ret(q.m, "ok", IF q.rows = <<>> THEN UndefinedValue ELSE Obj(q.rows[1]), f.o) :
      q \in { performQuery(m0, [f.command EXCEPT !.limit = 1]) } }) :
      f \in { find(opts) }, m0 \in {m}, o \in {opts} })

----------------------------------------------------------------------------
\* The schema object a caller hands to the engine: getSchema's result with
\* each relation's target schema resolved into relation.schema

RECURSIVE resolveSchema(_, _)
resolveSchema(table_name, depth) ==
    LET s == getSchema(Machine(NoFault, NoConfig), table_name).value
    IN  [s EXCEPT !.relations = Map(@, LAMBDA r :
            [table |-> r.table, column |-> r.column,
             org_table |-> r.org_table, org_column |-> r.org_column,
             schema |-> IF depth > 0 THEN resolveSchema(r.table, depth - 1) ELSE NoValue])]

----------------------------------------------------------------------------
\* The requests callers make

W(column, operator, value) == [column |-> column, operator |-> operator, value |-> value]
S(column, operator) == [column |-> column, operator |-> operator]

bogus == <<"bogus">>

Options(schema, fields, where, sort, relations, joins, limit, offset, unset) ==
    [schema |-> schema, fields |-> fields, where |-> where, sort |-> sort,
     relations |-> relations, joins |-> joins, limit |-> limit, offset |-> offset,
     unset |-> unset]

\* an optional array: Unset stands for a key the caller left out
Unset == [set |-> FALSE, v |-> <<>>]
Some(v) == [set |-> TRUE, v |-> v]
Opt(key, x) == IF x.set THEN {} ELSE {key}
Val(x) == x.v

Build(schema, fields, where, sort, relations, joins, limit, offset) ==
    Options(schema, Val(fields), Val(where), Val(sort), Val(relations), joins,
            limit, offset,
            Opt("fields", fields) \cup Opt("where", where) \cup Opt("sort", sort)
            \cup Opt("relations", relations))

UsersWhere ==
    { Unset,
      Some(<< W(id, "=", 1) >>),
      Some(<< W(id, "=", 3) >>),
      Some(<< W(orders \o Dot \o amount, ">", 100) >>),
      Some(<< W(id, "=", 1), W(orders \o Dot \o amount, ">", 100) >>),
      Some(<< W(big_orders \o Dot \o amount, ">", 100) >>) }

UsersRelations == { Unset, Some(<<orders>>), Some(<<orders, big_orders>>), Some(<<bogus>>) }

UsersFields == { Unset, Some(<<>>), Some(<<name, orders \o Dot \o amount>>) }

UsersSort == { Unset, Some(<< S(name, "DESC") >>) }

\* requests on users that route fields, filters and sorts to relations
RoutingOptions ==
    { Build(resolveSchema(users, SchemaDepth), f, w,
            Some(<< S(orders \o Dot \o amount, "DESC") >>), r, FALSE, Undefined, Undefined) :
        f \in UsersFields, w \in UsersWhere, r \in UsersRelations }

\* requests on users that ask for LEFT JOINs
JoinOptions ==
    { Build(resolveSchema(users, SchemaDepth), f, w, Unset, r, TRUE, Undefined, Undefined) :
        f \in {Unset, Some(<<id>>)},
        w \in {Some(<< W(id, "=", 3) >>),
               Some(<< W(id, "=", 1), W(orders \o Dot \o amount, ">", 100) >>)},
        r \in {Some(<<orders>>), Some(<<bogus>>)} }

\* requests on users that page and sort the root list
PagingOptions ==
    { Build(resolveSchema(users, SchemaDepth), Some(<<>>), Unset, s, r, FALSE, l, off) :
        s \in UsersSort, r \in {Some(<<orders>>)},
        l \in {Undefined, 0, 1}, off \in {Undefined, 1} }

\* requests on orders, whose relation leads back to users
OrdersOptions ==
    { Build(resolveSchema(orders, SchemaDepth), f, w, Unset, r, j, Undefined, Undefined) :
        f \in {Some(<<>>)},
        w \in {Unset, Some(<< W(amount, ">", 100), W(users \o Dot \o name, "=", 7) >>)},
        r \in {Unset, Some(<<users>>)}, j \in {FALSE} }

\* the requests of Scenario A and Scenario B, as the specification writes them
ScenarioOptions ==
    { Build(resolveSchema(users, SchemaDepth), Unset, Some(<< W(id, "=", 1) >>), Unset,
            Some(<<orders>>), FALSE, Undefined, Undefined),
      Build(resolveSchema(users, SchemaDepth), Unset,
            Some(<< W(orders \o Dot \o amount, ">", 100) >>), Unset,
            Some(<<orders>>), FALSE, 5, 0) }

OptionSet == ScenarioOptions \cup RoutingOptions \cup JoinOptions \cup PagingOptions \cup OrdersOptions

\* the requests used to exercise the executor
ExecOptions ==
    { Build(resolveSchema(users, SchemaDepth), Some(<<>>), w, Unset, r, FALSE, Undefined, Undefined) :
        w \in {Unset, Some(<< W(id, "=", 1), W(orders \o Dot \o amount, ">", 100) >>)},
        r \in {Unset, Some(<<orders>>)} }

Faults ==
    {NoFault} \cup [at : 1..MaxFaultAt, kind : {"connect", "query"}]

\* the record of the latest engine call
Call(op, arg, before, r) ==
    [op |-> op, arg |-> arg, before |-> before, status |-> r.status,
     value |-> r.value, m |-> r.m]

Idle == [op |-> "none"]

----------------------------------------------------------------------------
\* The state machine

Init ==
    /\ cfg = NoConfig
    /\ options \in OptionSet
    /\ given = options
    /\ call = Idle
    /\ open = 0

Finish(op, arg, r) ==
    /\ call' = Call(op, arg, options, r)
    /\ open' = open + r.m.acquired - r.m.released
    /\ UNCHANGED <<cfg, given>>

FindOne ==
    \E fault \in Faults :
        \E r \in {findOne(Machine(fault, cfg), options)} :
            options' = r.o /\ Finish("findOne", NoValue, r)

FindMany ==
    \E fault \in Faults :
        \E r \in {findMany(Machine(fault, cfg), options)} :
            options' = r.o /\ Finish("findMany", NoValue, r)

FindTotalRecords ==
    \E fault \in Faults :
        \E r \in {findTotalRecords(Machine(fault, cfg), options)} :
            options' = r.o /\ Finish("findTotalRecords", NoValue, r)

\* the root rows a caller can hold: the rows of the root table, or none
RootRecords ==
    {UndefinedValue} \cup
    { Obj(Store[options.schema.table][i]) : i \in 1..Len(Store[options.schema.table]) }

AddRelations ==
    \E fault \in Faults, record \in RootRecords :
        \E r \in {addRelations(Machine(fault, cfg), options, record)} :
            options' = r.o /\ Finish("addRelations", record, r)

GetSchema ==
    \E fault \in Faults, table_name \in TableNames \cup {ghost} :
        \E r \in {getSchema(Machine(fault, cfg), table_name)} :
            UNCHANGED options /\ Finish("getSchema", table_name, r)

\* the queries on one options object
Next ==
    \/ FindOne
    \/ FindMany
    \/ FindTotalRecords
    \/ AddRelations

Spec == Init /\ [][Next]_vars

\* the executor under every method of the engine, schema introspection included
InitExec ==
    /\ cfg \in Configs
    /\ options \in ExecOptions
    /\ given = options
    /\ call = Idle
    /\ open = 0

NextExec ==
    \/ GetSchema
    \/ FindOne
    \/ FindMany
    \/ FindTotalRecords
    \/ AddRelations

ExecSpec == InitExec /\ [][NextExec]_vars

----------------------------------------------------------------------------
\* Vocabulary of the properties

Called(ops) == call.op \in ops
Healthy == call.m.fault = NoFault

\* relation names of the request that the schema knows / does not know
KnownRelation(o, relation) == \E i \in 1..Len(o.schema.relations) : o.schema.relations[i].table = relation
RelationOf(o, relation) ==
    o.schema.relations[CHOOSE i \in 1..Len(o.schema.relations) : o.schema.relations[i].table = relation]
AllKnown(o) == \A k \in 1..Len(o.relations) : KnownRelation(o, o.relations[k])

\* qualified with exactly this table: 'table.' is the start of the column
StartsWith(c, prefix) == Len(c) >= Len(prefix) /\ SubSeq(c, 1, Len(prefix)) = prefix
Unqualified(c, prefix) == SubSeq(c, Len(prefix) + 1, Len(c))

\* the root rows that satisfy the caller's root-table conditions
RootMatches(o) ==
    Filter(Store[o.schema.table], LAMBDA row :
        \A i \in 1..Len(o.where) :
            NoDot(o.where[i].column) =>
                CondHolds((o.schema.table :> row), <<o.schema.table>>,
                          [o.where[i] EXCEPT !.column = o.schema.table \o Dot \o @]))

\* the rows of a relation's table that belong to a root row
RelatedRows(rel, row) ==
    Map(Filter(Store[rel.table], LAMBDA r : r[rel.column] = Get(row, rel.org_column)), Obj)

\* the where list a child query must carry for a root row and a relation
ExpectedChildWhere(o, rel, row) ==
    << [column |-> rel.column, operator |-> "=", value |-> Get(row, rel.org_column)] >>
    \o Map(Filter(o.where, LAMBDA w : StartsWith(w.column, rel.table \o Dot)),
           LAMBDA w : [w EXCEPT !.column = Unqualified(@, rel.table \o Dot)])

----------------------------------------------------------------------------
\* C1: findOne without joins, with a root-table where condition, one known
\* relation R and no fields list returns the matching root row extended with
\* key R holding the rows of R's table that reference the root row; it does
\* not fail.
C1_FindOneExpandsRelation ==
    ( /\ Called({"findOne"}) /\ Healthy
      /\ call.before = given
      /\ ~given.joins /\ ~Has(given, "fields")
      /\ Has(given, "where") /\ \A i \in 1..Len(given.where) : NoDot(given.where[i].column)
      /\ Len(given.relations) = 1 /\ AllKnown(given)
      /\ RootMatches(given) # <<>> )
    => /\ call.status = "ok"
       /\ call.value.row = RootMatches(given)[1]
       /\ DOMAIN call.value.rel = {given.relations[1]}
       /\ call.value.rel[given.relations[1]] =
              RelatedRows(RelationOf(given, given.relations[1]), RootMatches(given)[1])

\* C2: a findOne or findMany whose relations name a table unknown to the
\* schema fails, and no query is sent to the executor before the failure.
C2_UnknownRelationSendsNothing ==
    ( /\ Called({"findOne", "findMany"}) /\ Healthy
      /\ Has(call.before, "relations") /\ ~AllKnown(call.before) )
    => /\ call.status # "ok"
       /\ call.m.sent = <<>>

\* C3: two addRelations calls with the same options object on copies of the
\* same root record issue the same child queries and return the same nested
\* data.
C3_ExpansionIdempotent ==
    [][ ( /\ call.op = "addRelations" /\ call'.op = "addRelations"
          /\ call.m.fault = NoFault /\ call'.m.fault = NoFault
          /\ call'.arg = call.arg )
        => /\ call'.m.sent = call.m.sent
           /\ call'.status = call.status
           /\ call'.value = call.value ]_vars

\* C4: for every root row of a findMany and every requested relation, the
\* child query's where list is the anchor condition followed by the caller's
\* conditions qualified with exactly that relation's table, prefix stripped.
C4_ChildWherePerRow ==
    ( /\ Called({"findMany"}) /\ Healthy
      /\ call.before = given
      /\ Has(given, "relations") /\ AllKnown(given) )
    => LET n == Len(given.relations)
           rows == Execute(call.m.sent[2]).rows
       IN  \A c \in 1..Len(call.m.children) :
               call.m.children[c].where =
                   ExpectedChildWhere(given,
                       RelationOf(given, given.relations[((c - 1) % n) + 1]),
                       rows[((c - 1) \div n) + 1])

C6_ExactlyOnePrimaryKey ==
    ( Called({"getSchema"}) /\ call.status = "ok" )
    => Cardinality({ i \in 1..Len(call.value.columns) : call.value.columns[i].primary_key }) = 1

\* C7: findMany with limit = 0 fails; it neither runs the list query nor
\* returns a list result.
C7_ZeroLimitRejected ==
    ( Called({"findMany"}) /\ Healthy /\ call.before.limit = 0 )
    => /\ call.status # "ok"
       /\ \A i \in 1..Len(call.m.sent) : call.m.sent[i].kind # "select"

\* C8: when the single-row select of findOne matches no record, findOne
\* returns an empty object, whatever options.joins is.
C8_NoMatchGivesEmptyObject ==
    ( /\ Called({"findOne"}) /\ Healthy
      /\ Len(call.m.sent) >= 1
      /\ Execute(call.m.sent[1]).ok /\ Execute(call.m.sent[1]).rows = <<>> )
    => /\ call.status = "ok"
       /\ call.value = EmptyObject

\* C9: every connection performQuery opens is ended exactly once, so no
\* connection is open once a call has returned or thrown, and a failed query
\* reaches the caller as an error.
C9_ConnectionsReleased ==
    /\ open = 0
    /\ ~Called({"none"}) =>
         /\ call.m.acquired = call.m.released
         /\ call.m.acquired = Len(call.m.sent)
         /\ ( \/ call.m.logged > 0
              \/ (call.m.fault.kind = "connect" /\ call.m.calls >= call.m.fault.at) )
            => call.status = "QueryError"

C9_Witness ==
    /\ Called({"findMany"})
    /\ call.status = "QueryError"
    /\ call.m.logged = 1
    /\ call.m.acquired >= 2
    /\ open = 0

\* the root rows a call expands
RootRowCount ==
    IF call.op = "findMany"
    THEN (IF Len(call.m.sent) >= 2 /\ Execute(call.m.sent[2]).ok
          THEN Len(Execute(call.m.sent[2]).rows) ELSE 0)
    ELSE 1

\* C10: relation expansion is one level deep: a child findMany carries no
\* relations list, no child row is expanded, and a request makes at most one
\* child findMany per returned root row and requested relation, also when
\* the schemas refer to each other.
C10_OneLevelExpansion ==
    Called({"findOne", "findMany", "addRelations"})
    => /\ \A k \in 1..Len(call.m.children) : ~Has(call.m.children[k], "relations")
       /\ call.m.maxDepth <= 1
       /\ Len(call.m.children) <= RootRowCount * Len(call.before.relations)

C10_Witness ==
    /\ Called({"findMany"}) /\ call.status = "ok"
    /\ Len(call.m.children) >= 2
    /\ call.m.maxDepth = 1
    /\ \A k \in 1..Len(call.m.children) :
          \E i \in 1..Len(call.m.children[k].schema.relations) :
              call.m.children[k].schema.relations[i].table = call.before.schema.table

====
